---- MODULE Spec2Model ----
(***************************************************************************)
(* Model of faturamento_energia.py: the pure validation and billing        *)
(* functions and the button handler SistemaFaturamentoEnergia.calcular.    *)
(*                                                                         *)
(* Python floats are modelled as exact signed decimals with twelve         *)
(* fractional digits, plus the two infinities and NaN with their IEEE      *)
(* rules (inf - inf, inf * 0 and every operation on NaN give NaN; every    *)
(* comparison with NaN is false).  Binary rounding of finite values is not *)
(* modelled: twelve digits hold exactly every value the tables produce     *)
(* from a consumption with up to four decimals.  Strings are sequences of  *)
(* one-character strings.                                                  *)
(***************************************************************************)
EXTENDS Integers, Sequences, FiniteSets, TLC

VARIABLES
  TARIFAS_FAIXAS, BANDEIRAS, IMPOSTOS,      \* the module-level tables
  entry_consumo, combo_bandeira,           \* the two input widgets
  text_resultado, messagebox,              \* the output panel, the last error dialog
  pc, valido, consumo, bandeira_validada, erro, resultado,  \* frame of calcular()
  chamadas,                                \* calls made by the current run of calcular()
  fat,                                     \* frame of calcular_faturamento()
  args, ret,                               \* last direct call of a pure function
  primeira, ultima, n_chamadas, outras     \* record of the direct calls of calcular_faturamento

vars == <<TARIFAS_FAIXAS, BANDEIRAS, IMPOSTOS, entry_consumo, combo_bandeira,
          text_resultado, messagebox, pc, valido, consumo, bandeira_validada,
          erro, resultado, chamadas, fat, args, ret, primeira, ultima, n_chamadas, outras>>

tabelas == <<TARIFAS_FAIXAS, BANDEIRAS, IMPOSTOS>>
gui == <<entry_consumo, combo_bandeira, text_resultado, messagebox, pc, valido,
         consumo, bandeira_validada, erro, resultado, chamadas>>
diretas == <<args, ret>>
faturas == <<primeira, ultima, n_chamadas, outras>>

(***************************************************************************)
(* Floats.  A value is [k, s, i, a, b, c]: kind, sign, and the magnitude   *)
(* i + a/10^4 + b/10^8 + c/10^12 with 0 <= a, b, c < 10^4.  Zero has sign  *)
(* 1 (Python's -0.0 equals 0.0 in every comparison the program makes).     *)
(***************************************************************************)
Limb == 10^4

Num(k, s, i, a, b, c) == [k |-> k, s |-> s, i |-> i, a |-> a, b |-> b, c |-> c]
Dec(i, a, b, c) == Num("fin", 1, i, a, b, c)
Int2Float(n) == Dec(n, 0, 0, 0)
Zero == Int2Float(0)
Inf == Num("inf", 1, 0, 0, 0, 0)
NaN == Num("nan", 1, 0, 0, 0, 0)
None == Num("None", 1, 0, 0, 0, 0)
ValueError == Num("ValueError", 1, 0, 0, 0, 0)

IsZero(x) == x.k = "fin" /\ x.i = 0 /\ x.a = 0 /\ x.b = 0 /\ x.c = 0
IsFinite(x) == x.k = "fin"

\* Carries (or borrows) from each limb into the next higher one.
Norm(s, i, a, b, c) ==
  LET c2 == c % Limb
      bb == b + (c - c2) \div Limb
      b2 == bb % Limb
      aa == a + (bb - b2) \div Limb
      a2 == aa % Limb
      i2 == i + (aa - a2) \div Limb
  IN  Num("fin", IF i2 = 0 /\ a2 = 0 /\ b2 = 0 /\ c2 = 0 THEN 1 ELSE s, i2, a2, b2, c2)

MagLt(x, y) ==
  \/ x.i < y.i
  \/ x.i = y.i /\ x.a < y.a
  \/ x.i = y.i /\ x.a = y.a /\ x.b < y.b
  \/ x.i = y.i /\ x.a = y.a /\ x.b = y.b /\ x.c < y.c

\* x < y
Lt(x, y) ==
  IF x.k = "nan" \/ y.k = "nan" THEN FALSE
  ELSE IF x.k = "inf" THEN x.s = -1 /\ ~(y.k = "inf" /\ y.s = -1)
  ELSE IF y.k = "inf" THEN y.s = 1
  ELSE IF x.s # y.s THEN x.s = -1
  ELSE IF x.s = 1 THEN MagLt(x, y) ELSE MagLt(y, x)

\* x == y
Eq(x, y) == x.k # "nan" /\ y.k # "nan" /\ x = y

Le(x, y) == Lt(x, y) \/ Eq(x, y)
Gt(x, y) == Lt(y, x)

Neg(x) ==
  IF x.k = "nan" \/ IsZero(x) THEN x ELSE [x EXCEPT !.s = -x.s]

\* x + y
Add(x, y) ==
  IF x.k = "nan" \/ y.k = "nan" THEN NaN
  ELSE IF x.k = "inf" THEN (IF y.k = "inf" /\ y.s # x.s THEN NaN ELSE x)
  ELSE IF y.k = "inf" THEN y
  ELSE IF x.s = y.s THEN Norm(x.s, x.i + y.i, x.a + y.a, x.b + y.b, x.c + y.c)
  ELSE IF MagLt(x, y) THEN Norm(y.s, y.i - x.i, y.a - x.a, y.b - x.b, y.c - x.c)
  ELSE Norm(x.s, x.i - y.i, x.a - y.a, x.b - y.b, x.c - y.c)

\* x - y
Sub(x, y) == Add(x, Neg(y))

\* x * y
Mul(x, y) ==
  IF x.k = "nan" \/ y.k = "nan" THEN NaN
  ELSE IF x.k = "inf" \/ y.k = "inf"
    THEN (IF IsZero(x) \/ IsZero(y) THEN NaN ELSE Num("inf", x.s * y.s, 0, 0, 0, 0))
  ELSE Norm(x.s * y.s,
            x.i * y.i,
            x.i * y.a + x.a * y.i,
            x.i * y.b + x.a * y.a + x.b * y.i,
            x.i * y.c + x.a * y.b + x.b * y.a + x.c * y.i)

\* abs(x)
Abs(x) == IF x.k = "nan" THEN x ELSE [x EXCEPT !.s = 1]

\* min(x, y) of Python: the first argument unless the second is smaller.
PyMin(x, y) == IF Lt(y, x) THEN y ELSE x

\* int(x) of a finite float: truncation towards zero.
PyInt(x) == x.s * x.i

(***************************************************************************)
(* Strings.                                                                *)
(***************************************************************************)
Maiusculas == <<"A","B","C","D","E","F","G","H","I","J","K","L","M",
                "N","O","P","Q","R","S","T","U","V","W","X","Y","Z">>
Minusculas == <<"a","b","c","d","e","f","g","h","i","j","k","l","m",
                "n","o","p","q","r","s","t","u","v","w","x","y","z">>
Digitos == <<"0","1","2","3","4","5","6","7","8","9">>

IndexOf(seq, ch) == CHOOSE n \in 1..Len(seq) : seq[n] = ch
Has(seq, ch) == \E n \in 1..Len(seq) : seq[n] = ch

\* str.lower()
Lower(s) ==
  [n \in 1..Len(s) |->
     IF Has(Maiusculas, s[n]) THEN Minusculas[IndexOf(Maiusculas, s[n])] ELSE s[n]]

\* str.replace(old, new) for one-character old and new
Replace(s, old, new) == [n \in 1..Len(s) |-> IF s[n] = old THEN new ELSE s[n]]

\* sep.join(parts)
RECURSIVE Join(_, _)
Join(sep, parts) ==
  IF parts = <<>> THEN <<>>
  ELSE IF Len(parts) = 1 THEN parts[1]
  ELSE parts[1] \o sep \o Join(sep, Tail(parts))

\* str.strip() of blanks
RECURSIVE Strip(_)
Strip(s) ==
  IF s = <<>> THEN s
  ELSE IF s[1] = " " THEN Strip(Tail(s))
  ELSE IF s[Len(s)] = " " THEN Strip(SubSeq(s, 1, Len(s) - 1))
  ELSE s

IsDigits(s) == \A n \in 1..Len(s) : Has(Digitos, s[n])

\* The value of a digit string read as an integer.
RECURSIVE DigitsValue(_)
DigitsValue(s) ==
  IF s = <<>> THEN 0
  ELSE 10 * DigitsValue(SubSeq(s, 1, Len(s) - 1)) + (IndexOf(Digitos, s[Len(s)]) - 1)

\* Digits p..p+3 of the fraction digit string, zero-padded on the right, as a limb.
FracLimb(s, p) ==
  DigitsValue([n \in 1..4 |-> IF p + n - 1 <= Len(s) THEN s[p + n - 1] ELSE "0"])

\* float(s): blanks stripped, an optional sign, then inf, infinity or nan in
\* any case, or decimal digits with at most one point and at least one digit.
\* Exponents and digit-group underscores are not modelled.
PyFloat(s) ==
  LET t == Strip(s)
      signed == t # <<>> /\ t[1] \in {"+", "-"}
      sg == IF signed /\ t[1] = "-" THEN -1 ELSE 1
      u == IF signed THEN Tail(t) ELSE t
      w == Lower(u)
      hasPoint == Has(u, ".")
      p == IF hasPoint THEN IndexOf(u, ".") ELSE Len(u) + 1
      ip == SubSeq(u, 1, p - 1)
      fp == SubSeq(u, p + 1, Len(u))
  IN  IF w = <<"i","n","f">> \/ w = <<"i","n","f","i","n","i","t","y">>
        THEN Num("inf", sg, 0, 0, 0, 0)
      ELSE IF w = <<"n","a","n">> THEN NaN
      ELSE IF IsDigits(ip) /\ IsDigits(fp) /\ Len(ip) + Len(fp) > 0
        THEN Norm(sg, DigitsValue(ip), FracLimb(fp, 1), FracLimb(fp, 5), FracLimb(fp, 9))
      ELSE ValueError

(***************************************************************************)
(* The tables.  A dict is the sequence of its (key, value) pairs in        *)
(* insertion order.                                                        *)
(***************************************************************************)
verde == <<"v","e","r","d","e">>
amarela == <<"a","m","a","r","e","l","a">>
vermelha == <<"v","e","r","m","e","l","h","a">>

TabelaTarifas ==
  << <<Int2Float(0),   Int2Float(100), Dec(0, 5000, 0, 0)>>,
     <<Int2Float(100), Int2Float(200), Dec(0, 7500, 0, 0)>>,
     <<Int2Float(200), Int2Float(500), Dec(1, 0, 0, 0)>>,
     <<Int2Float(500), Inf,            Dec(1, 3500, 0, 0)>> >>

TabelaBandeiras ==
  << <<verde, Zero>>, <<amarela, Dec(0, 500, 0, 0)>>, <<vermelha, Dec(0, 1000, 0, 0)>> >>

TabelaImpostos ==
  << <<"ICMS", Dec(0, 1800, 0, 0)>>, <<"PIS", Dec(0, 165, 0, 0)>>,
     <<"COFINS", Dec(0, 761, 0, 0)>> >>

\* dict.keys(), dict.values(), key in dict, dict[key]
Keys(d) == [n \in 1..Len(d) |-> d[n][1]]
Values(d) == [n \in 1..Len(d) |-> d[n][2]]
InDict(d, key) == \E n \in 1..Len(d) : d[n][1] = key
Raise(kind, arg) == [k |-> kind, arg |-> arg]
GetItem(d, key) ==
  IF InDict(d, key) THEN d[CHOOSE n \in 1..Len(d) : d[n][1] = key][2]
  ELSE Raise("KeyError", key)
IsException(x) == "k" \in DOMAIN x /\ x.k \in {"KeyError", "ValueError"}

\* functools.reduce(lambda acc, valor: acc + valor, seq, initial)
RECURSIVE reduce_soma(_, _)
reduce_soma(seq, acc) ==
  IF seq = <<>> THEN acc ELSE reduce_soma(Tail(seq), Add(acc, seq[1]))

\* functools.reduce(lambda acc, faixa: acc + faixa['valor'], seq, initial)
RECURSIVE reduce_valor(_, _)
reduce_valor(seq, acc) ==
  IF seq = <<>> THEN acc ELSE reduce_valor(Tail(seq), Add(acc, seq[1].valor))

(***************************************************************************)
(* Validation.  A message is the sequence of its text fragments; the empty *)
(* message is <<>>.  Accents are dropped from the texts.                   *)
(***************************************************************************)
validar_numero_positivo(valor) ==
  LET num == PyFloat(Replace(valor, ",", "."))
  IN  IF num = ValueError
        THEN <<FALSE, None, <<"Valor invalido. Digite um numero valido">>>>
      ELSE IF Lt(num, Zero) THEN <<FALSE, None, <<"O valor deve ser positivo">>>>
      ELSE <<TRUE, num, <<>>>>

validar_bandeira(bandeira) ==
  LET bandeira_lower == Lower(bandeira)
  IN  IF InDict(BANDEIRAS, bandeira_lower) THEN <<TRUE, <<>>>>
      ELSE <<FALSE, <<"Bandeira invalida. Use: ", Join(<<",", " ">>, Keys(BANDEIRAS))>>>>

\* validar_entradas with the tier checked first.
validar_entradas_bandeira_primeiro(consumo_str, bandeira) ==
  LET vc == validar_numero_positivo(consumo_str)
      vb == validar_bandeira(bandeira)
  IN  IF ~vb[1] THEN <<FALSE, None, <<>>, vb[2]>>
      ELSE IF ~vc[1] THEN <<FALSE, None, <<>>, vc[3]>>
      ELSE <<TRUE, vc[2], Lower(bandeira), <<>>>>

validar_entradas(consumo_str, bandeira) ==
  LET vc == validar_numero_positivo(consumo_str)
      vb == validar_bandeira(bandeira)
  IN  IF ~vc[1] THEN <<FALSE, None, <<>>, vc[3]>>
      ELSE IF ~vb[1] THEN <<FALSE, None, <<>>, vb[2]>>
      ELSE <<TRUE, vc[2], Lower(bandeira), <<>>>>

(***************************************************************************)
(* Calculation.                                                            *)
(***************************************************************************)
\* calcular_faixa with the upper bound taken for the width of the bracket.
calcular_faixa_sem_inicio(consumo_restante, faixa) ==
  LET kwh_usado == PyMin(consumo_restante, faixa[2])
  IN  <<kwh_usado, Mul(kwh_usado, faixa[3])>>

\* calcular_faixa with max for min.
calcular_faixa_com_max(consumo_restante, faixa) ==
  LET kwh_faixa == Sub(faixa[2], faixa[1])
      kwh_usado == IF Gt(kwh_faixa, consumo_restante) THEN kwh_faixa ELSE consumo_restante
  IN  <<kwh_usado, Mul(kwh_usado, faixa[3])>>

calcular_faixa(consumo_restante, faixa) ==
  LET inicio == faixa[1]
      fim == faixa[2]
      tarifa == faixa[3]
      kwh_faixa == Sub(fim, inicio)
      kwh_usado == PyMin(consumo_restante, kwh_faixa)
      valor == Mul(kwh_usado, tarifa)
  IN  <<kwh_usado, valor>>

\* The label of a bracket: its bounds as integers; "inf" stands for the
\* infinity sign of the open end.
Rotulo(faixa) ==
  <<ToString(PyInt(faixa[1])), "-",
    IF faixa[2] # Inf THEN ToString(PyInt(faixa[2])) ELSE "inf", " kWh">>

\* The loop without the decrement of consumo_restante.
RECURSIVE LacoSemDesconto(_, _, _, _)
LacoSemDesconto(idx, consumo_restante, resultados, aplicacoes) ==
  IF idx > Len(TARIFAS_FAIXAS) \/ Le(consumo_restante, Zero)
    THEN [resultados |-> resultados, aplicacoes |-> aplicacoes]
  ELSE
    LET faixa == TARIFAS_FAIXAS[idx]
        r == calcular_faixa(consumo_restante, faixa)
        item == [faixa |-> Rotulo(faixa), kwh |-> r[1], tarifa |-> faixa[3], valor |-> r[2]]
    IN  LacoSemDesconto(idx + 1,
                        consumo_restante,
                        IF Gt(r[1], Zero) THEN Append(resultados, item) ELSE resultados,
                        Append(aplicacoes, [idx |-> idx, restante |-> consumo_restante,
                                            kwh |-> r[1], valor |-> r[2]]))

\* The for loop of calcular_tarifacao_por_faixas from bracket idx on.  Besides
\* resultados it returns aplicacoes, one entry per call of calcular_faixa.
RECURSIVE Laco(_, _, _, _)
Laco(idx, consumo_restante, resultados, aplicacoes) ==
  IF idx > Len(TARIFAS_FAIXAS) \/ Le(consumo_restante, Zero)
    THEN [resultados |-> resultados, aplicacoes |-> aplicacoes]
  ELSE
    LET faixa == TARIFAS_FAIXAS[idx]
        r == calcular_faixa(consumo_restante, faixa)
        kwh_usado == r[1]
        valor == r[2]
        item == [faixa |-> Rotulo(faixa), kwh |-> kwh_usado,
                 tarifa |-> faixa[3], valor |-> valor]
    IN  Laco(idx + 1,
             Sub(consumo_restante, kwh_usado),
             IF Gt(kwh_usado, Zero) THEN Append(resultados, item) ELSE resultados,
             Append(aplicacoes, [idx |-> idx, restante |-> consumo_restante,
                                 kwh |-> kwh_usado, valor |-> valor]))

\* calcular_tarifacao_por_faixas with resultados kept from the call before
\* (a list created once, as a mutable default argument is).
calcular_tarifacao_por_faixas_acumulando(c) ==
  Laco(1, c,
       IF "faixas" \in DOMAIN ultima.resultado THEN ultima.resultado.faixas ELSE <<>>,
       <<>>).resultados

calcular_tarifacao_por_faixas(c) == Laco(1, c, <<>>, <<>>).resultados

\* The calls of calcular_faixa that calcular_tarifacao_por_faixas(c) makes.
AplicacoesDeFaixa(c) == Laco(1, c, <<>>, <<>>).aplicacoes

\* calcular_adicional_bandeira with BANDEIRAS.get(bandeira, 0.0).
calcular_adicional_bandeira_com_get(subtotal, bandeira) ==
  Mul(subtotal, IF InDict(BANDEIRAS, bandeira) THEN GetItem(BANDEIRAS, bandeira) ELSE Zero)

calcular_adicional_bandeira(subtotal, bandeira) ==
  LET taxa == GetItem(BANDEIRAS, bandeira)
  IN  IF IsException(taxa) THEN taxa ELSE Mul(subtotal, taxa)

\* calcular_imposto returning the base with the tax on top.
calcular_imposto_com_base(base_calculo, aliquota) ==
  Mul(base_calculo, Add(Int2Float(1), aliquota))

calcular_imposto(base_calculo, aliquota) == Mul(base_calculo, aliquota)

calcular_impostos(base_calculo) ==
  [n \in 1..Len(IMPOSTOS) |->
     <<IMPOSTOS[n][1], calcular_imposto(base_calculo, IMPOSTOS[n][2])>>]

Tolerancia == Dec(0, 100, 0, 0)

verificar_invariantes(res) ==
  IF Lt(res.total_final, Zero) THEN FALSE
  ELSE
    LET soma_faixas == reduce_valor(res.faixas, Zero)
        recalculo == Add(Add(soma_faixas, res.adicional_bandeira), res.total_impostos)
        diferenca == Abs(Sub(recalculo, res.total_final))
    IN  Lt(diferenca, Tolerancia)

(***************************************************************************)
(* Inputs.                                                                 *)
(***************************************************************************)
\* Texts typed into the consumption entry.
Entradas ==
  { <<>>,
    <<"0">>,
    <<"5","0">>,
    <<"1","0","0">>,
    <<"1","5","0",",","5">>,
    <<"1","5","0",".","5">>,
    <<"2","5","0">>,
    <<"5","0","0">>,
    <<"5","0","1">>,
    <<"7","5","0">>,
    <<" ","1","2"," ">>,
    <<"+","7">>,
    <<"-","5">>,
    <<"a","b","c">>,
    <<"1",",","2",",","3">>,
    <<"i","n","f">>,
    <<"I","n","f","i","n","i","t","y">>,
    <<"n","a","n">> }

\* Tier names handed to the functions that take one.
Nomes ==
  { <<"v","e","r","d","e">>,
    <<"a","m","a","r","e","l","a">>,
    <<"v","e","r","m","e","l","h","a">>,
    <<"V","E","R","M","E","L","H","A">>,
    <<"V","e","r","d","e">>,
    <<"a","z","u","l">>,
    <<>>,
    <<"v","e","r","d","e"," ">> }

MaxChamadas == 3
MaxPassos == 130

\* Tier names handed to calcular_faturamento.
NomesFaturamento == { verde, amarela, vermelha, <<"a","z","u","l">> }

\* Consumptions and tier names of the repeated calls of calcular_faturamento.
ConsumosRepetidos == { Dec(0, 5000, 0, 0), Int2Float(250), Int2Float(501), Inf, NaN }
NomesRepetidos == { verde, vermelha, <<"a","z","u","l">> }

\* Consumptions handed to calcular_tarifacao_por_faixas: every 5 kWh, the
\* values just off a bracket edge, and the non-finite and negative ones.
ConsumosTarifacao ==
  { Int2Float(5 * n) : n \in 0..MaxPassos }
    \cup { Dec(0, 1, 0, 0), Dec(99, 9999, 0, 0), Dec(100, 1, 0, 0), Dec(199, 5000, 0, 0),
           Dec(200, 5000, 0, 0), Dec(499, 9999, 0, 0), Dec(500, 1, 0, 0),
           Inf, NaN, Neg(Int2Float(5)), Neg(Inf) }

\* Remaining quantities handed to calcular_faixa.
Restantes ==
  { Int2Float(n) : n \in {0, 1, 50, 99, 100, 101, 150, 200, 250, 299, 300, 301,
                          500, 501, 750, 1000, 5000} }
    \cup { Dec(0, 1, 0, 0), Dec(0, 5000, 0, 0), Dec(99, 5000, 0, 0), Dec(100, 5000, 0, 0),
           Inf, NaN, Neg(Inf), Neg(Int2Float(5)), Neg(Int2Float(250)),
           Neg(Dec(0, 5000, 0, 0)) }

\* Subtotals handed to calcular_adicional_bandeira.
Subtotais ==
  { Int2Float(n) : n \in {0, 1, 50, 125, 175, 425, 1000} }
    \cup { Dec(0, 2500, 0, 0), Dec(87, 8750, 0, 0), Dec(426, 3500, 0, 0),
           Inf, NaN, Neg(Int2Float(5)), Neg(Inf) }

(***************************************************************************)
(* The state after import and construction of the window.                  *)
(***************************************************************************)
SemFatura == [consumo |-> None, bandeira |-> <<>>, resultado |-> None]

\* No call of calcular_faturamento is active.
SemQuadro ==
  [pc |-> "fora", consumo |-> None, bandeira |-> <<>>, faixas_detalhadas |-> <<>>,
   subtotal_consumo |-> None, adicional_bandeira |-> None, base_impostos |-> None,
   impostos_detalhados |-> <<>>, total_impostos |-> None, total_final |-> None]

Init ==
  /\ TARIFAS_FAIXAS = TabelaTarifas
  /\ BANDEIRAS = TabelaBandeiras
  /\ IMPOSTOS = TabelaImpostos
  /\ entry_consumo = <<>>
  /\ combo_bandeira = Keys(TabelaBandeiras)[1]
  /\ text_resultado = <<>>
  /\ messagebox = <<>>
  /\ pc = "idle"
  /\ valido = FALSE
  /\ consumo = None
  /\ bandeira_validada = <<>>
  /\ erro = <<>>
  /\ resultado = None
  /\ chamadas = <<>>
  /\ fat = SemQuadro
  /\ args = <<>>
  /\ ret = <<>>
  /\ primeira = SemFatura
  /\ ultima = SemFatura
  /\ n_chamadas = 0
  /\ outras = FALSE

(***************************************************************************)
(* calcular_faturamento(consumo, bandeira), one statement per step.        *)
(***************************************************************************)
\* The frame at entry.
Entrada(c, bandeira) == [SemQuadro EXCEPT !.pc = "tarifar", !.consumo = c, !.bandeira = bandeira]

FatTarifar ==
  /\ fat.pc = "tarifar"
  /\ fat' = [fat EXCEPT !.faixas_detalhadas = calcular_tarifacao_por_faixas(fat.consumo),
                        !.pc = "subtotal"]
  /\ UNCHANGED <<tabelas, gui, diretas, faturas>>

FatSubtotal ==
  /\ fat.pc = "subtotal"
  /\ fat' = [fat EXCEPT
               !.subtotal_consumo =
                  reduce_valor(fat.faixas_detalhadas, Zero),
               !.pc = "adicional"]
  /\ UNCHANGED <<tabelas, gui, diretas, faturas>>

\* An unknown tier raises KeyError out of calcular_faturamento.
FatAdicional ==
  /\ fat.pc = "adicional"
  /\ LET v == calcular_adicional_bandeira(fat.subtotal_consumo, fat.bandeira)
     IN  fat' = [fat EXCEPT !.adicional_bandeira = v,
                            !.pc = IF IsException(v) THEN "raise" ELSE "base"]
  /\ UNCHANGED <<tabelas, gui, diretas, faturas>>

FatBase ==
  /\ fat.pc = "base"
  /\ fat' = [fat EXCEPT !.base_impostos = Add(fat.subtotal_consumo, fat.adicional_bandeira),
                        !.pc = "impostos"]
  /\ UNCHANGED <<tabelas, gui, diretas, faturas>>

FatImpostos ==
  /\ fat.pc = "impostos"
  /\ fat' = [fat EXCEPT !.impostos_detalhados = calcular_impostos(fat.base_impostos),
                        !.pc = "total_impostos"]
  /\ UNCHANGED <<tabelas, gui, diretas, faturas>>

FatTotalImpostos ==
  /\ fat.pc = "total_impostos"
  /\ fat' = [fat EXCEPT
               !.total_impostos =
                  reduce_soma(Values(fat.impostos_detalhados), Zero),
               !.pc = "total_final"]
  /\ UNCHANGED <<tabelas, gui, diretas, faturas>>

FatTotalFinal ==
  /\ fat.pc = "total_final"
  /\ fat' = [fat EXCEPT !.total_final = Add(fat.base_impostos, fat.total_impostos),
                        !.pc = "return"]
  /\ UNCHANGED <<tabelas, gui, diretas, faturas>>

\* The dict that calcular_faturamento returns, or the exception it raises.
Retorno(f) ==
  IF f.pc = "raise" THEN f.adicional_bandeira
  ELSE [consumo_kwh |-> f.consumo,
        bandeira |-> f.bandeira,
        faixas |-> f.faixas_detalhadas,
        subtotal_consumo |-> f.subtotal_consumo,
        adicional_bandeira |-> f.adicional_bandeira,
        base_impostos |-> f.base_impostos,
        impostos |-> f.impostos_detalhados,
        total_impostos |-> f.total_impostos,
        total_final |-> f.total_final]

Faturamento ==
  \/ FatTarifar
  \/ FatSubtotal
  \/ FatAdicional
  \/ FatBase
  \/ FatImpostos
  \/ FatTotalImpostos
  \/ FatTotalFinal

(***************************************************************************)
(* The window.  The user edits the entry and picks from the read-only      *)
(* combobox while no handler runs; calcular() runs in steps.               *)
(***************************************************************************)
Digitar(s) ==
  /\ pc = "idle"
  /\ entry_consumo' = s
  /\ UNCHANGED <<tabelas, combo_bandeira, text_resultado, messagebox, pc, valido,
                 consumo, bandeira_validada, erro, resultado, chamadas, fat, diretas,
                 faturas>>

Selecionar(b) ==
  /\ pc = "idle"
  /\ combo_bandeira' = b
  /\ UNCHANGED <<tabelas, entry_consumo, text_resultado, messagebox, pc, valido,
                 consumo, bandeira_validada, erro, resultado, chamadas, fat, diretas,
                 faturas>>

\* calcular(): the entries are read and validated; a failure is shown and the
\* handler returns.
CalcularValidar ==
  /\ pc = "idle"
  /\ LET v == validar_entradas(entry_consumo, combo_bandeira)
     IN  /\ valido' = v[1]
         /\ consumo' = v[2]
         /\ bandeira_validada' = v[3]
         /\ erro' = v[4]
         /\ IF ~v[1]
              THEN /\ messagebox' = <<"Erro de Validacao", v[4]>>
                   /\ chamadas' = <<"validar_entradas", "showerror">>
                   /\ pc' = "fim"
              ELSE /\ messagebox' = <<>>
                   /\ chamadas' = <<"validar_entradas">>
                   /\ pc' = "faturar"
  /\ UNCHANGED <<tabelas, entry_consumo, combo_bandeira, text_resultado, resultado,
                 fat, diretas, faturas>>

\* calcular(): calcular_faturamento is called ...
CalcularFaturar ==
  /\ pc = "faturar"
  /\ fat' = Entrada(consumo, bandeira_validada)
  /\ chamadas' = Append(chamadas, "calcular_faturamento")
  /\ pc' = "faturando"
  /\ UNCHANGED <<tabelas, entry_consumo, combo_bandeira, text_resultado, messagebox,
                 valido, consumo, bandeira_validada, erro, resultado, diretas, faturas>>

\* ... and returns its dict.
CalcularReceber ==
  /\ pc = "faturando"
  /\ fat.pc = "return"
  /\ resultado' = Retorno(fat)
  /\ fat' = SemQuadro
  /\ pc' = "verificar"
  /\ UNCHANGED <<tabelas, entry_consumo, combo_bandeira, text_resultado, messagebox,
                 valido, consumo, bandeira_validada, erro, chamadas, diretas, faturas>>

\* The check of the invariants without the return after the error dialog.
CalcularVerificarSemReturn ==
  /\ pc = "verificar"
  /\ IF ~verificar_invariantes(resultado)
       THEN /\ messagebox' = <<"Erro", <<"Falha na verificacao dos invariantes!">>>>
            /\ chamadas' = chamadas \o <<"verificar_invariantes", "showerror">>
       ELSE /\ messagebox' = messagebox
            /\ chamadas' = Append(chamadas, "verificar_invariantes")
  /\ pc' = "exibir"
  /\ UNCHANGED <<tabelas, entry_consumo, combo_bandeira, text_resultado, valido,
                 consumo, bandeira_validada, erro, resultado, fat, diretas, faturas>>

\* calcular(): the invariants are checked; a failure is shown and the handler
\* returns.
CalcularVerificar ==
  /\ pc = "verificar"
  /\ IF ~verificar_invariantes(resultado)
       THEN /\ messagebox' = <<"Erro", <<"Falha na verificacao dos invariantes!">>>>
            /\ chamadas' = chamadas \o <<"verificar_invariantes", "showerror">>
            /\ pc' = "fim"
       ELSE /\ messagebox' = messagebox
            /\ chamadas' = Append(chamadas, "verificar_invariantes")
            /\ pc' = "exibir"
  /\ UNCHANGED <<tabelas, entry_consumo, combo_bandeira, text_resultado, valido,
                 consumo, bandeira_validada, erro, resultado, fat, diretas, faturas>>

\* exibir_resultado(): the panel is cleared and the bill written to it.  The
\* text layout is not modelled: the panel holds the bill it shows.
exibir_resultado(res) == <<res>>

CalcularExibir ==
  /\ pc = "exibir"
  /\ text_resultado' = exibir_resultado(resultado)
  /\ chamadas' = Append(chamadas, "exibir_resultado")
  /\ pc' = "fim"
  /\ UNCHANGED <<tabelas, entry_consumo, combo_bandeira, messagebox, valido, consumo,
                 bandeira_validada, erro, resultado, fat, diretas, faturas>>

\* calcular() returns: its frame is gone and the dialog, if any, is closed.
CalcularRetornar ==
  /\ pc = "fim"
  /\ pc' = "idle"
  /\ valido' = FALSE
  /\ consumo' = None
  /\ bandeira_validada' = <<>>
  /\ erro' = <<>>
  /\ resultado' = None
  /\ messagebox' = <<>>
  /\ chamadas' = <<>>
  /\ UNCHANGED <<tabelas, entry_consumo, combo_bandeira, text_resultado, fat, diretas,
                 faturas>>

Next ==
  \/ \E s \in Entradas : Digitar(s)
  \/ \E b \in {Keys(BANDEIRAS)[n] : n \in 1..Len(BANDEIRAS)} : Selecionar(b)
  \/ CalcularValidar
  \/ CalcularFaturar
  \/ Faturamento
  \/ CalcularReceber
  \/ CalcularVerificar
  \/ CalcularExibir
  \/ CalcularRetornar

Spec == Init /\ [][Next]_vars

(***************************************************************************)
(* Direct calls of the pure functions, one specification per function.     *)
(***************************************************************************)
ChamarValidarEntradas(s, b) ==
  /\ args' = <<s, b>>
  /\ ret' = validar_entradas(s, b)
  /\ UNCHANGED <<tabelas, gui, fat, faturas>>

NextValidar == \E s \in Entradas, b \in Nomes : ChamarValidarEntradas(s, b)

SpecValidar == Init /\ [][NextValidar]_vars

ChamarFaixa(r, idx) ==
  /\ args' = <<r, idx>>
  /\ ret' = calcular_faixa(r, TARIFAS_FAIXAS[idx])
  /\ UNCHANGED <<tabelas, gui, fat, faturas>>

NextFaixa == \E r \in Restantes, idx \in 1..Len(TARIFAS_FAIXAS) : ChamarFaixa(r, idx)

SpecFaixa == Init /\ [][NextFaixa]_vars

ChamarTarifacao(c) ==
  /\ args' = <<c>>
  /\ ret' = calcular_tarifacao_por_faixas(c)
  /\ UNCHANGED <<tabelas, gui, fat, faturas>>

NextTarifacao == \E c \in ConsumosTarifacao : ChamarTarifacao(c)

SpecTarifacao == Init /\ [][NextTarifacao]_vars

ChamarAdicional(subtotal, b) ==
  /\ args' = <<subtotal, b>>
  /\ ret' = <<calcular_adicional_bandeira(subtotal, b)>>
  /\ UNCHANGED <<tabelas, gui, fat, faturas>>

NextAdicional == \E subtotal \in Subtotais, b \in Nomes : ChamarAdicional(subtotal, b)

SpecAdicional == Init /\ [][NextAdicional]_vars

\* calcular_faturamento is called ...
ChamarFatura(c, b) ==
  /\ fat.pc = "fora"
  /\ fat' = Entrada(c, b)
  /\ args' = <<>>
  /\ ret' = <<>>
  /\ UNCHANGED <<tabelas, gui, faturas>>

\* ... and returns its dict or raises.
ReceberFatura ==
  /\ fat.pc \in {"return", "raise"}
  /\ args' = <<fat.consumo, fat.bandeira>>
  /\ ret' = <<Retorno(fat)>>
  /\ fat' = SemQuadro
  /\ UNCHANGED <<tabelas, gui, faturas>>

NextFatura ==
  \/ \E c \in ConsumosTarifacao, b \in NomesFaturamento : ChamarFatura(c, b)
  \/ Faturamento
  \/ ReceberFatura

SpecFatura == Init /\ [][NextFatura]_vars

\* Repeated calls of calcular_faturamento: the first and the last call are
\* kept, and whether a call with other arguments than the first has been made.
ChamarFaturamento(c, b) ==
  /\ fat.pc = "fora"
  /\ n_chamadas < MaxChamadas
  /\ fat' = Entrada(c, b)
  /\ UNCHANGED <<tabelas, gui, diretas, faturas>>

ReceberFaturamento ==
  /\ fat.pc \in {"return", "raise"}
  /\ LET fatura == [consumo |-> fat.consumo, bandeira |-> fat.bandeira,
                    resultado |-> Retorno(fat)]
     IN  /\ ultima' = fatura
         /\ primeira' = IF n_chamadas = 0 THEN fatura ELSE primeira
         /\ outras' = (outras \/ (n_chamadas > 0 /\ <<fat.consumo, fat.bandeira>>
                                                      # <<primeira.consumo, primeira.bandeira>>))
  /\ n_chamadas' = n_chamadas + 1
  /\ fat' = SemQuadro
  /\ UNCHANGED <<tabelas, gui, diretas>>

NextFaturamento ==
  \/ \E c \in ConsumosRepetidos, b \in NomesRepetidos : ChamarFaturamento(c, b)
  \/ Faturamento
  \/ ReceberFaturamento

SpecFaturamento == Init /\ [][NextFaturamento]_vars

(***************************************************************************)
(* Properties.                                                             *)
(***************************************************************************)
Largura(faixa) == Sub(faixa[2], faixa[1])
SomaKwh(itens) == reduce_soma([n \in 1..Len(itens) |-> itens[n].kwh], Zero)
Max0(x) == IF Lt(Zero, x) THEN x ELSE Zero

C10_FaixasContiguas ==
  (args # <<>> /\ Gt(args[1], Zero)) =>
     LET k == Len(ret)
     IN  /\ k >= 1
         /\ k <= Len(TARIFAS_FAIXAS)
         /\ \A n \in 1..k :
              /\ ret[n].faixa = Rotulo(TARIFAS_FAIXAS[n])
              /\ ret[n].tarifa = TARIFAS_FAIXAS[n][3]
              /\ n < k => Eq(ret[n].kwh, Largura(TARIFAS_FAIXAS[n]))
              /\ n = k => /\ Gt(ret[n].kwh, Zero)
                          /\ Le(ret[n].kwh, Largura(TARIFAS_FAIXAS[n]))
         /\ Gt(args[1], TARIFAS_FAIXAS[k][1])
         /\ Le(args[1], TARIFAS_FAIXAS[k][2])

\* A consumption that ends inside the third bracket has been broken down.
C10_Witness ==
  /\ args = <<Int2Float(250)>>
  /\ Len(ret) = 3
  /\ ret[3].kwh = Int2Float(50)

\* The bill the tables prescribe for consumption c and tier b.
RefFaixa(c, faixa) == Mul(faixa[3], Max0(Sub(PyMin(c, faixa[2]), faixa[1])))
RefSubtotal(c) ==
  reduce_soma([n \in 1..Len(TabelaTarifas) |-> RefFaixa(c, TabelaTarifas[n])], Zero)
RefAdicional(c, b) == Mul(RefSubtotal(c), GetItem(TabelaBandeiras, b))
RefBase(c, b) == Add(RefSubtotal(c), RefAdicional(c, b))
RefImposto(c, b, n) == Mul(RefBase(c, b), TabelaImpostos[n][2])
RefTotalImpostos(c, b) ==
  Add(Add(RefImposto(c, b, 1), RefImposto(c, b, 2)), RefImposto(c, b, 3))
RefTotal(c, b) == Add(RefBase(c, b), RefTotalImpostos(c, b))

Range(seq) == {seq[n] : n \in 1..Len(seq)}
CamposDaFatura ==
  {"consumo_kwh", "bandeira", "faixas", "subtotal_consumo", "adicional_bandeira",
   "base_impostos", "impostos", "total_impostos", "total_final"}

\* C1: for every consumption c >= 0 that passed validation and every tier,
\* verificar_invariantes accepts the bill calcular_faturamento returned.
C1_InvariantesValem ==
  (pc = "verificar" /\ Le(Zero, consumo)) => verificar_invariantes(resultado)

\* C5: for every consumption the validation accepted, each call of
\* calcular_faixa made for it yields a finite kwh, not above the consumption
\* still remaining, and a finite valor.
C5_FaixaFinita ==
  valido =>
    \A n \in 1..Len(AplicacoesDeFaixa(consumo)) :
       LET ap == AplicacoesDeFaixa(consumo)[n]
       IN  IsFinite(ap.kwh) /\ Le(ap.kwh, ap.restante) /\ IsFinite(ap.valor)

\* C4: calcular_faturamento runs only after validar_entradas succeeded; a run
\* of calcular() ends with exactly one of a validation error, an invariant
\* error, or the bill written to the panel after verificar_invariantes
\* accepted it; the panel never holds a partial bill.
C4_ValidarAntesDeCalcular ==
  /\ ("calcular_faturamento" \in Range(chamadas) \/ fat.pc # "fora") =>
        /\ valido
        /\ chamadas[1] = "validar_entradas"
  /\ pc = "fim" =>
        \/ /\ ~valido
           /\ chamadas = <<"validar_entradas", "showerror">>
           /\ messagebox = <<"Erro de Validacao", erro>>
           /\ erro # <<>>
           /\ resultado = None
        \/ /\ valido
           /\ chamadas = <<"validar_entradas", "calcular_faturamento",
                           "verificar_invariantes", "showerror">>
           /\ messagebox[1] = "Erro"
           /\ ~verificar_invariantes(resultado)
        \/ /\ valido
           /\ chamadas = <<"validar_entradas", "calcular_faturamento",
                           "verificar_invariantes", "exibir_resultado">>
           /\ messagebox = <<>>
           /\ verificar_invariantes(resultado)
           /\ text_resultado = <<resultado>>
  /\ text_resultado # <<>> =>
        /\ DOMAIN text_resultado[1] = CamposDaFatura
        /\ verificar_invariantes(text_resultado[1])

\* A run ended with the bill of a consumption in the top bracket on the panel.
C4_Witness ==
  /\ pc = "fim"
  /\ chamadas[Len(chamadas)] = "exibir_resultado"
  /\ Len(text_resultado[1].faixas) = Len(TARIFAS_FAIXAS)

RelatorioBandeira == validar_bandeira(<<>>)[2]

\* C7: validar_entradas checks the consumption first: an invalid consumption
\* gives its own message whatever the tier, a valid consumption with an
\* invalid tier gives the tier message, both valid give the parsed consumption
\* and the lowercase tier; every failure carries no consumption and an empty
\* tier.
C7_ConsumoAntesDaBandeira ==
  args # <<>> =>
     LET vc == validar_numero_positivo(args[1])
         vb == validar_bandeira(args[2])
     IN  /\ ~vc[1] => ret = <<FALSE, None, <<>>, vc[3]>>
         /\ (vc[1] /\ ~vb[1]) => ret = <<FALSE, None, <<>>, RelatorioBandeira>>
         /\ (vc[1] /\ vb[1]) =>
              /\ ret = <<TRUE, vc[2], Lower(args[2]), <<>>>>
              /\ InDict(BANDEIRAS, ret[3])
         /\ ~ret[1] =>
              /\ ret[2] = None
              /\ ret[3] = <<>>
              /\ ret[4] \in {<<"Valor invalido. Digite um numero valido">>,
                             <<"O valor deve ser positivo">>, RelatorioBandeira}
         /\ ret[4] = RelatorioBandeira => vc[1]
         /\ args = << <<"a","b","c">>, <<"a","z","u","l">> >> =>
              ret[4] = <<"Valor invalido. Digite um numero valido">>
         /\ args = << <<"-","5">>, <<"a","z","u","l">> >> =>
              ret[4] = <<"O valor deve ser positivo">>
         /\ args = << <<"1","5","0",",","5">>, <<"V","E","R","M","E","L","H","A">> >> =>
              ret = <<TRUE, Dec(150, 5000, 0, 0), vermelha, <<>>>>

\* An invalid consumption has been validated together with an invalid tier.
C7_Witness ==
  /\ args = << <<"a","b","c">>, <<"a","z","u","l">> >>
  /\ ~ret[1]

\* C8 as stated: with a tier that is not in the table,
\* calcular_adicional_bandeira fails with the UnknownTier error that carries
\* the report validar_bandeira gives.
C8_Original ==
  (args # <<>> /\ ~InDict(BANDEIRAS, args[2])) =>
     ret[1] = Raise("UnknownTier", RelatorioBandeira)

\* C8 amended: with a tier that is not a key of the table,
\* calcular_adicional_bandeira raises KeyError carrying the tier given, and
\* returns no surcharge.
C8_KeyError ==
  (args # <<>> /\ ~InDict(BANDEIRAS, args[2])) =>
     ret[1] = Raise("KeyError", args[2])

\* The surcharge of a subtotal has been asked for a tier outside the table.
C8_Witness ==
  /\ args = <<Int2Float(175), <<"a","z","u","l">> >>
  /\ IsException(ret[1])

====
